---------------------------- MODULE Spec2Model ----------------------------
(***************************************************************************)
(* Personal-Finance-Tracker: the Telegram expense bot (src/bot.py) and its *)
(* supervisor (src/app.py).                                                *)
(*                                                                         *)
(* Strings are sequences of one-character strings, so that strip, lower,   *)
(* split, re.search and re.sub are computed character by character.        *)
(* Python floats are modelled as exact decimal numbers [m, e] standing for *)
(* m * 10^e, kept normalised (m not divisible by 10, and e = 0 when m = 0).*)
(***************************************************************************)
EXTENDS Integers, Sequences, FiniteSets, TLC

VARIABLES
    pmsg,             \* parse_flexible_message: the message passed in
    pres,             \* parse_flexible_message: what it returned
    rin,              \* parse_rupiah_amount: the value passed in
    rout,             \* parse_rupiah_amount: what it returned
    ledger,           \* the sheet's data rows, in append order
    clock,            \* wall clock: the day of the month
    query,            \* get_daily_total: the user id asked for
    total,            \* get_daily_total: what it returned
    sheets_connected, \* bot.py module global
    thread,           \* app.py bot_thread: where run_bot/main stands
    restartWait,      \* seconds left of run_bot's time.sleep
    handled,          \* number of updates the polling loop has dispatched
    update,           \* the update handle_message was last called with
    outbox,           \* replies sent with reply_text, in order
    events            \* log records of the last handle_message / main call

vars == <<pmsg, pres, rin, rout, ledger, clock, query, total, sheets_connected,
          thread, restartWait, handled, update, outbox, events>>

---------------------------------------------------------------------------
(* Characters *)

Digits == {"0", "1", "2", "3", "4", "5", "6", "7", "8", "9"}

LowerLetters == <<"a", "b", "c", "d", "e", "f", "g", "h", "i", "j", "k", "l", "m",
                  "n", "o", "p", "q", "r", "s", "t", "u", "v", "w", "x", "y", "z">>

UpperLetters == <<"A", "B", "C", "D", "E", "F", "G", "H", "I", "J", "K", "L", "M",
                  "N", "O", "P", "Q", "R", "S", "T", "U", "V", "W", "X", "Y", "Z">>

Whitespace == {" ", "\t", "\n", "\r"}

IsDigit(c) == c \in Digits

DigitVal(c) ==
    CASE c = "0" -> 0 [] c = "1" -> 1 [] c = "2" -> 2 [] c = "3" -> 3
      [] c = "4" -> 4 [] c = "5" -> 5 [] c = "6" -> 6 [] c = "7" -> 7
      [] c = "8" -> 8 [] c = "9" -> 9

DigitChar(n) ==
    CASE n = 0 -> "0" [] n = 1 -> "1" [] n = 2 -> "2" [] n = 3 -> "3"
      [] n = 4 -> "4" [] n = 5 -> "5" [] n = 6 -> "6" [] n = 7 -> "7"
      [] n = 8 -> "8" [] n = 9 -> "9"

\* str.lower() on one character
LowerChar(c) ==
    IF \E i \in 1..26 : UpperLetters[i] = c
    THEN LowerLetters[CHOOSE i \in 1..26 : UpperLetters[i] = c]
    ELSE c

\* str.lower()
Lower(s) == [i \in 1..Len(s) |-> LowerChar(s[i])]

SetMin(S) == CHOOSE x \in S : \A y \in S : x <= y
SetMax(S) == CHOOSE x \in S : \A y \in S : x >= y

\* str.strip(): leading and trailing whitespace removed
Strip(s) ==
    LET idx == {i \in 1..Len(s) : s[i] \notin Whitespace}
    IN  IF idx = {} THEN <<>> ELSE SubSeq(s, SetMin(idx), SetMax(idx))

\* the characters of s at the positions in keep, in order
Pick(s, keep) ==
    LET F[i \in 0..Len(s)] ==
            IF i = 0 THEN <<>>
            ELSE IF i \in keep THEN Append(F[i - 1], s[i]) ELSE F[i - 1]
    IN  F[Len(s)]

\* re.sub(r'\s+', ' ', s): every maximal run of whitespace becomes one space
CollapseSpaces(s) ==
    LET keep == {i \in 1..Len(s) :
                    s[i] \notin Whitespace \/ i = 1 \/ s[i - 1] \notin Whitespace}
        t == [i \in 1..Len(s) |-> IF s[i] \in Whitespace THEN " " ELSE s[i]]
    IN  Pick(t, keep)

---------------------------------------------------------------------------
(* Numbers *)

RECURSIVE Pow10(_)
Pow10(n) == IF n <= 0 THEN 1 ELSE 10 * Pow10(n - 1)

RECURSIVE DecNorm(_, _)
DecNorm(m, e) ==
    IF m = 0 THEN [m |-> 0, e |-> 0]
    ELSE IF m % 10 = 0 THEN DecNorm(m \div 10, e + 1)
    ELSE [m |-> m, e |-> e]

Zero == [m |-> 0, e |-> 0]

DecInt(n) == DecNorm(n, 0)

DecNeg(a) == [m |-> 0 - a.m, e |-> a.e]

DecAdd(a, b) ==
    LET e == IF a.e < b.e THEN a.e ELSE b.e
    IN  DecNorm(a.m * Pow10(a.e - e) + b.m * Pow10(b.e - e), e)

DecIsNeg(a) == a.m < 0

\* the value of a string of decimal digits
DigitsVal(s) ==
    LET F[i \in 0..Len(s)] == IF i = 0 THEN 0 ELSE 10 * F[i - 1] + DigitVal(s[i])
    IN  F[Len(s)]

\* float(s) for a str s: surrounding whitespace, an optional sign, digits
\* with at most one decimal point.  ok = FALSE stands for ValueError.
\* (Exponents, inf/nan and digit-group underscores are not modelled.)
FloatOfStr(s) ==
    LET t    == Strip(s)
        sgn  == Len(t) > 0 /\ t[1] \in {"-", "+"}
        body == IF sgn THEN SubSeq(t, 2, Len(t)) ELSE t
        dots == {i \in 1..Len(body) : body[i] = "."}
        digs == {i \in 1..Len(body) : IsDigit(body[i])}
        ok   == /\ digs # {}
                /\ Cardinality(dots) <= 1
                /\ digs \cup dots = 1..Len(body)
        frac == IF dots = {} THEN 0 ELSE Len(body) - SetMax(dots)
        v    == DecNorm(DigitsVal(Pick(body, digs)), 0 - frac)
    IN  IF ok
        THEN [ok |-> TRUE, v |-> IF sgn /\ t[1] = "-" THEN DecNeg(v) ELSE v]
        ELSE [ok |-> FALSE, v |-> Zero]

---------------------------------------------------------------------------
(* GoogleSheetsFinanceTracker.parse_rupiah_amount *)

\* Python values a sheet cell or a caller can hand over
NumVal(d)  == [t |-> "num", n |-> d, s |-> <<>>]
StrVal(s)  == [t |-> "str", n |-> Zero, s |-> s]
OtherVal   == [t |-> "other", n |-> Zero, s |-> <<>>]

\* s.replace(old, ''): non-overlapping occurrences of old removed, left to right
RECURSIVE RemoveAll(_, _)
RemoveAll(s, old) ==
    IF Len(s) < Len(old) THEN s
    ELSE IF SubSeq(s, 1, Len(old)) = old
         THEN RemoveAll(SubSeq(s, Len(old) + 1, Len(s)), old)
         ELSE <<s[1]>> \o RemoveAll(SubSeq(s, 2, Len(s)), old)

\* re.sub(r'[^\d]', '', s)
OnlyDigits(s) == Pick(s, {i \in 1..Len(s) : IsDigit(s[i])})

\* mutant: '.' read as a decimal point instead of a thousands separator
parse_rupiah_amount_DotIsDecimal(amount_value) ==
    IF amount_value.t = "num" THEN amount_value.n
    ELSE IF amount_value.t = "str"
    THEN LET c1 == Strip(RemoveAll(amount_value.s, <<"R", "p">>))
             c2 == Pick(c1, {i \in 1..Len(c1) : IsDigit(c1[i]) \/ c1[i] = "."})
             f  == FloatOfStr(c2)
         IN  IF f.ok THEN f.v ELSE Zero
    ELSE Zero

parse_rupiah_amount(amount_value) ==
    IF amount_value.t = "num" THEN amount_value.n
    ELSE IF amount_value.t = "str"
    THEN LET c1 == Strip(RemoveAll(amount_value.s, <<"R", "p">>))
             c2 == RemoveAll(RemoveAll(c1, <<".">>), <<",">>)
             c3 == OnlyDigits(c2)
         IN  IF c3 # <<>> THEN FloatOfStr(c3).v ELSE Zero
    ELSE Zero

---------------------------------------------------------------------------
(* parse_flexible_message *)

LowerSet == {LowerLetters[i] : i \in 1..26}

\* how many consecutive characters of s, from position i on, are in S
RunLen(s, i, S) ==
    LET stop == {j \in i..Len(s) : s[j] \notin S}
    IN  IF stop = {} THEN (IF i > Len(s) THEN 0 ELSE Len(s) - i + 1)
        ELSE SetMin(stop) - i

Min2(a, b) == IF a < b THEN a ELSE b

\* mutant: the suffix group takes one letter only, [a-z] for [a-z]{1,2}
MatchAt_OneLetterSuffix(s, i) ==
    LET a    == RunLen(s, i, Digits)
        p1   == i + a
        dot  == p1 <= Len(s) /\ s[p1] = "."
        p2   == IF dot THEN p1 + 1 ELSE p1
        p3   == p2 + RunLen(s, p2, Digits)
        p4   == p3 + RunLen(s, p3, Whitespace)
        l    == Min2(1, RunLen(s, p4, LowerSet))
    IN  [ok    |-> a >= 1 /\ l >= 1,
         start |-> i,
         stop  |-> p4 + l - 1,
         num   |-> SubSeq(s, i, p3 - 1),
         suf   |-> SubSeq(s, p4, p4 + l - 1)]

\* number_pattern = (\d+\.?\d*)\s*([a-z]{1,2}) tried at start position i.
\* Every quantifier is greedy and the character classes that follow one
\* another are disjoint, so the pattern matches at i exactly when the
\* longest-run attempt does, and that attempt is the match re returns.
MatchAt(s, i) ==
    LET a    == RunLen(s, i, Digits)
        p1   == i + a
        dot  == p1 <= Len(s) /\ s[p1] = "."
        p2   == IF dot THEN p1 + 1 ELSE p1
        p3   == p2 + RunLen(s, p2, Digits)
        p4   == p3 + RunLen(s, p3, Whitespace)
        l    == Min2(2, RunLen(s, p4, LowerSet))
    IN  [ok    |-> a >= 1 /\ l >= 1,
         start |-> i,
         stop  |-> p4 + l - 1,
         num   |-> SubSeq(s, i, p3 - 1),
         suf   |-> SubSeq(s, p4, p4 + l - 1)]

\* re.search(number_pattern, message): the leftmost start that matches
HasMatch(s) == \E i \in 1..Len(s) : MatchAt(s, i).ok

Search(s) == MatchAt(s, SetMin({i \in 1..Len(s) : MatchAt(s, i).ok}))

Thousand == [m |-> 1, e |-> 3]
Million  == [m |-> 1, e |-> 6]
Billion  == [m |-> 1, e |-> 9]

multipliers ==
    (<<"k">> :> Thousand) @@ (<<"r", "b">> :> Thousand) @@
    (<<"m">> :> Million) @@ (<<"j", "t">> :> Million) @@
    (<<"b">> :> Billion)

DecMul(a, b) == DecNorm(a.m * b.m, a.e + b.e)

Miscellaneous ==
    <<"m", "i", "s", "c", "e", "l", "l", "a", "n", "e", "o", "u", "s">>

ParseNone == [ok |-> FALSE, amount |-> Zero, description |-> <<>>]

Parsed(a, d) == [ok |-> TRUE, amount |-> a, description |-> d]

\* the branch taken when re.search finds the pattern
ParseWithSuffix(message) ==
    LET match       == Search(message)
        amount      == FloatOfStr(match.num).v
        scaled      == IF match.suf \in DOMAIN multipliers
                       THEN DecMul(amount, multipliers[match.suf])
                       ELSE amount
        removed     == SubSeq(message, 1, match.start - 1)
                         \o SubSeq(message, match.stop + 1, Len(message))
        description == Strip(CollapseSpaces(Strip(removed)))
    IN  Parsed(scaled, IF description = <<>> THEN Miscellaneous ELSE description)

\* message.split(' ', 1) followed by the two float() attempts
ParseTwoParts(message) ==
    LET sp == {i \in 1..Len(message) : message[i] = " "}
    IN  IF sp = {} THEN ParseNone
        ELSE LET k     == SetMin(sp)
                 part0 == SubSeq(message, 1, k - 1)
                 part1 == SubSeq(message, k + 1, Len(message))
                 f0    == FloatOfStr(part0)
                 f1    == FloatOfStr(part1)
             IN  IF f0.ok THEN Parsed(f0.v, Strip(part1))
                 ELSE IF f1.ok THEN Parsed(f1.v, Strip(part0))
                 ELSE ParseNone

parse_flexible_message(raw) ==
    LET message == Lower(Strip(raw))
    IN  IF HasMatch(message) THEN ParseWithSuffix(message)
        ELSE ParseTwoParts(message)

---------------------------------------------------------------------------
(* The sheet and GoogleSheetsFinanceTracker.get_daily_total *)

\* str(n) for an int n >= 0
RECURSIVE IntStr(_)
IntStr(n) == IF n < 10 THEN <<DigitChar(n)>> ELSE Append(IntStr(n \div 10), DigitChar(n % 10))

TwoDigits(n) == <<DigitChar(n \div 10), DigitChar(n % 10)>>

\* date.today().strftime('%Y-%m-%d'); the model's days are those of one month
DateStr(day) == <<"2", "0", "2", "5", "-", "0", "1", "-">> \o TwoDigits(day)

\* the time of day is not modelled: every timestamp carries the same one
TimeOfDay == <<"1", "2", ":", "0", "0", ":", "0", "0">>

\* datetime.now().strftime('%Y-%m-%d %H:%M:%S')
TimestampStr(day) == DateStr(day) \o <<" ">> \o TimeOfDay

\* one data row as get_all_records returns it, keyed by the header names
Row(date, amount, description, user_id, username) ==
    [Date |-> date, Amount |-> amount, Description |-> description,
     UserID |-> user_id, Username |-> username]

\* mutant: the whole timestamp compared with today, the split forgotten
DatePortion_NoSplit(date) == date

\* record['Date'].split(' ')[0] if ' ' in str(record['Date']) else str(record['Date'])
DatePortion(date) ==
    LET sp == {i \in 1..Len(date) : date[i] = " "}
    IN  IF sp # {} THEN SubSeq(date, 1, SetMin(sp) - 1) ELSE date

\* a in b, for strings
IsSubstring(a, b) ==
    \E i \in 1..(Len(b) - Len(a) + 1) : SubSeq(b, i, i + Len(a) - 1) = a

\* mutant: the date test forgotten
Qualifies_AnyDay(record, user_id, today) ==
    IsSubstring(IntStr(user_id), IntStr(record.UserID))

\* record_date == today and str(user_id) in str(record_user)
Qualifies(record, user_id, today) ==
    /\ DatePortion(record.Date) = today
    /\ IsSubstring(IntStr(user_id), IntStr(record.UserID))

\* daily_total after the loop over the records
DailySum(records, user_id, today) ==
    LET F[i \in 0..Len(records)] ==
            IF i = 0 THEN Zero
            ELSE IF Qualifies(records[i], user_id, today)
                 THEN DecAdd(F[i - 1], parse_rupiah_amount(records[i].Amount))
                 ELSE F[i - 1]
    IN  F[Len(records)]

\* round(x, 2): the nearest multiple of 0.01.  A decimal tie (x.xx5) is not a
\* tie of the binary float, which lies a little above or below it, so a tie
\* may go either way.
Round2(x) ==
    IF x.e >= -2 THEN {x}
    ELSE LET unit == Pow10(-2 - x.e)
             q    == x.m \div unit
             r    == x.m % unit
         IN  IF 2 * r < unit THEN {DecNorm(q, -2)}
             ELSE IF 2 * r > unit THEN {DecNorm(q + 1, -2)}
             ELSE {DecNorm(q, -2), DecNorm(q + 1, -2)}

\* get_daily_total: the values it can return.  readOk = FALSE stands for
\* sheet.get_all_records() raising, which the except branch turns into 0.
get_daily_total(records, user_id, day, readOk) ==
    IF readOk THEN Round2(DailySum(records, user_id, DateStr(day))) ELSE {Zero}

---------------------------------------------------------------------------
(* Bounded inputs *)

MaxMsgLen == 4

\* all strings over alphabet A of length at most n
StringsUpTo(A, n) == UNION {[1..k -> A] : k \in 0..n}

ParseAlphabet == {"2", ".", " ", "-", "k", "r", "b", "m", "j", "t", "K"}

Messages == StringsUpTo(ParseAlphabet, MaxMsgLen)

RupiahIdle == [pc |-> "idle", v |-> Zero]

TotalIdle == [pc |-> "idle", v |-> Zero]

NoUpdate == [text |-> <<>>, user_id |-> 0, username |-> <<>>]

NotCalled == [pc |-> "idle", ok |-> FALSE, amount |-> Zero, description |-> <<>>]

Returned(r) ==
    [pc |-> "returned", ok |-> r.ok, amount |-> r.amount, description |-> r.description]

---------------------------------------------------------------------------
(* The parser on its own: every message over ParseAlphabet, parsed once *)

IdleParse  == pmsg = <<>> /\ pres = NotCalled
IdleRupiah == rin = OtherVal /\ rout = RupiahIdle
IdleTotal  == query = 0 /\ total = TotalIdle
IdleSheet  == ledger = <<>> /\ clock = 1
IdleBot    ==
    /\ sheets_connected = FALSE /\ thread = "idle" /\ restartWait = 0
    /\ handled = 0 /\ update = NoUpdate /\ outbox = <<>> /\ events = <<>>

InitParse ==
    /\ pmsg \in Messages
    /\ pres = NotCalled
    /\ IdleRupiah /\ IdleTotal /\ IdleSheet /\ IdleBot

CallParse ==
    /\ pres.pc = "idle"
    /\ pres' = Returned(parse_flexible_message(pmsg))
    /\ UNCHANGED <<pmsg, rin, rout, ledger, clock, query, total, sheets_connected,
                   thread, restartWait, handled, update, outbox, events>>

NextParse == CallParse

SpecParse == InitParse /\ [][NextParse]_vars

---------------------------------------------------------------------------
(* Claims about parse_flexible_message, checked under SpecParse *)

AllIn(s, S) == \A i \in 1..Len(s) : s[i] \in S

\* plain digits, optionally with a decimal point between digits
IsPlainNumber(s) ==
    /\ Len(s) >= 1
    /\ AllIn(s, Digits \cup {"."})
    /\ Cardinality({i \in 1..Len(s) : s[i] = "."}) <= 1
    /\ IsDigit(s[1]) /\ IsDigit(s[Len(s)])

\* a one-word description of lower-case letters: no digit, no whitespace
IsWord(s) == Len(s) >= 1 /\ AllIn(s, LowerSet)

\* the ways to read msg as two parts with one space between them
Splits(msg) ==
    {<<SubSeq(msg, 1, k - 1), SubSeq(msg, k + 1, Len(msg))>> :
        k \in {x \in 2..(Len(msg) - 1) : msg[x] = " "}}

\* C1: for every plain number A and every digit-free description D (here a
\* word of lower-case letters), both "A D" and "D A" parse to (A, D).
C1_BothOrdersGiveAmountAndDescription ==
    pres.pc = "returned" =>
        \A sp \in Splits(pmsg) :
            /\ (IsPlainNumber(sp[1]) /\ IsWord(sp[2]) =>
                    /\ pres.ok
                    /\ pres.amount = FloatOfStr(sp[1]).v
                    /\ pres.description = sp[2])
            /\ (IsWord(sp[1]) /\ IsPlainNumber(sp[2]) =>
                    /\ pres.ok
                    /\ pres.amount = FloatOfStr(sp[2]).v
                    /\ pres.description = sp[1])

\* the "D A" half of C1, which the code does satisfy
C1_WordThenAmount ==
    pres.pc = "returned" =>
        \A sp \in Splits(pmsg) :
            IsWord(sp[1]) /\ IsPlainNumber(sp[2]) =>
                /\ pres.ok
                /\ pres.amount = FloatOfStr(sp[2]).v
                /\ pres.description = sp[1]

\* a number as the pattern's first group allows it: digits, at most one
\* point, starting with a digit
IsPatternNumber(s) ==
    /\ Len(s) >= 1
    /\ AllIn(s, Digits \cup {"."})
    /\ Cardinality({i \in 1..Len(s) : s[i] = "."}) <= 1
    /\ IsDigit(s[1])

\* s[i..j] is a number, optional whitespace, and a suffix of 1-2 letters;
\* p is the number's last position and q the suffix's first
OccursAs(s, i, p, q, j) ==
    /\ i <= p /\ p < q /\ q <= j /\ j <= Len(s)
    /\ IsPatternNumber(SubSeq(s, i, p))
    /\ AllIn(SubSeq(s, p + 1, q - 1), Whitespace)
    /\ AllIn(SubSeq(s, q, j), LowerSet)
    /\ j - q + 1 \in {1, 2}

Occurs(s, i, j) == \E p \in i..j, q \in i..j : OccursAs(s, i, p, q, j)

\* the multiplier the claim gives for a suffix
ClaimedFactor(suf) ==
    IF suf = <<"k">> \/ suf = <<"r", "b">> THEN [m |-> 1, e |-> 3]
    ELSE IF suf = <<"m">> \/ suf = <<"j", "t">> THEN [m |-> 1, e |-> 6]
    ELSE IF suf = <<"b">> THEN [m |-> 1, e |-> 9]
    ELSE [m |-> 1, e |-> 0]

C3_ParsedAmountNonNegative ==
    pres.pc = "returned" /\ pres.ok => pres.amount.m >= 0

---------------------------------------------------------------------------
(* parse_rupiah_amount on its own: every string over RupiahAlphabet, a few
   numbers and a value that is neither *)

MaxStrLen == 4

MaxNum == 3

RupiahAlphabet == {"R", "p", "1", "2", ".", ",", " ", "x"}

Rp1000000 == <<"R", "p", "1", ".", "0", "0", "0", ".", "0", "0", "0">>

Rp5000 == <<"R", "p", "5", ".", "0", "0", "0">>

RupiahInputs ==
    {StrVal(s) : s \in StringsUpTo(RupiahAlphabet, MaxStrLen)}
      \cup {NumVal(DecInt(n)) : n \in (0 - MaxNum)..MaxNum}
      \cup {NumVal([m |-> 15, e |-> -1]), OtherVal}
      \cup {StrVal(Rp1000000), StrVal(Rp5000)}

InitRupiah ==
    /\ rin \in RupiahInputs
    /\ rout = RupiahIdle
    /\ IdleParse /\ IdleTotal /\ IdleSheet /\ IdleBot

CallRupiah ==
    /\ rout.pc = "idle"
    /\ rout' = [pc |-> "returned", v |-> parse_rupiah_amount(rin)]
    /\ UNCHANGED <<pmsg, pres, rin, ledger, clock, query, total, sheets_connected,
                   thread, restartWait, handled, update, outbox, events>>

NextRupiah == CallRupiah

SpecRupiah == InitRupiah /\ [][NextRupiah]_vars

C3_RupiahNonNegative == rout.pc = "returned" => rout.v.m >= 0

---------------------------------------------------------------------------
(* get_daily_total on its own: every sheet of at most MaxRows rows drawn
   from SampleRows, asked for each user on each day *)

MaxRows == 2

LastDay == 2

Days == 1..LastDay

\* 1 is a substring of 12
Users == {1, 12}

SampleDates == {TimestampStr(d) : d \in Days} \cup {DateStr(1)}

SampleAmounts == {NumVal(DecInt(10000)), StrVal(Rp5000), NumVal([m |-> 5, e |-> -3])}

SampleRows ==
    {Row(d, a, <<"x">>, u, <<"u">>) : d \in SampleDates, a \in SampleAmounts, u \in Users}

Sheets == UNION {[1..k -> SampleRows] : k \in 0..MaxRows}

InitTotal ==
    /\ ledger \in Sheets
    /\ clock \in Days
    /\ query \in Users
    /\ total = TotalIdle
    /\ IdleParse /\ IdleRupiah /\ IdleBot

CallDailyTotal ==
    /\ total.pc = "idle"
    /\ \E readOk \in BOOLEAN :
         /\ \E r \in get_daily_total(ledger, query, clock, readOk) :
                total' = [pc |-> "returned", v |-> r]
         /\ events' = <<IF readOk THEN "daily_total_calculated"
                        ELSE "error_calculating_daily_total">>
    /\ UNCHANGED <<pmsg, pres, rin, rout, ledger, clock, query, sheets_connected,
                   thread, restartWait, handled, update, outbox>>

NextTotal == CallDailyTotal

SpecTotal == InitTotal /\ [][NextTotal]_vars

\* a <= b for decimals
DecLeq(a, b) ==
    LET e == IF a.e < b.e THEN a.e ELSE b.e
    IN  a.m * Pow10(a.e - e) <= b.m * Pow10(b.e - e)

\* the calendar-day part of a 'YYYY-MM-DD...' date
DayPart(date) == SubSeq(date, 1, 10)

\* the rows the claim counts: dated today, UserID containing the user id
CountedRows(records, user_id, day) ==
    {i \in 1..Len(records) :
        /\ DayPart(records[i].Date) = DateStr(day)
        /\ IsSubstring(IntStr(user_id), IntStr(records[i].UserID))}

\* the sum of parse_rupiah_amount(Amount) over the rows at the positions in I
SumOver(records, I) ==
    LET F[i \in 0..Len(records)] ==
            IF i = 0 THEN Zero
            ELSE IF i \in I THEN DecAdd(F[i - 1], parse_rupiah_amount(records[i].Amount))
            ELSE F[i - 1]
    IN  F[Len(records)]

\* v is x rounded to 2 decimal places
IsRounded2(v, x) ==
    /\ v.e >= -2
    /\ DecLeq(DecAdd(v, DecNeg(x)), [m |-> 5, e |-> -3])
    /\ DecLeq(DecAdd(x, DecNeg(v)), [m |-> 5, e |-> -3])

\* C4 as stated: get_daily_total returns exactly the sum over the rows of
\* today whose UserID contains the user id.
C4_ExactSum ==
    total.pc = "returned" =>
        total.v = SumOver(ledger, CountedRows(ledger, query, clock))

\* C4 as amended: when the sheet can be read the result is that sum rounded
\* to 2 decimal places, and when reading it fails the result is 0.
C4_RoundedSumOrZero ==
    total.pc = "returned" =>
        IF events = <<"daily_total_calculated">>
        THEN IsRounded2(total.v, SumOver(ledger, CountedRows(ledger, query, clock)))
        ELSE total.v = Zero

\* C4's case happened: 10000 and "Rp5.000" of the same user and day gave 15000
C4_Witness ==
    /\ total.pc = "returned"
    /\ events = <<"daily_total_calculated">>
    /\ Len(ledger) = 2
    /\ ledger[1].Amount = NumVal(DecInt(10000))
    /\ ledger[2].Amount = StrVal(Rp5000)
    /\ \A i \in 1..2 : ledger[i].UserID = query /\ DayPart(ledger[i].Date) = DateStr(clock)
    /\ total.v = DecInt(15000)

\* C9: what get_daily_total(u) returns does not depend on the rows of other
\* user ids: it is what it returns on the sheet without them.
C9_OtherUsersDoNotCount ==
    total.pc = "returned" /\ events = <<"daily_total_calculated">> =>
        LET own == SelectSeq(ledger, LAMBDA r : r.UserID = query)
        IN  total.v \in get_daily_total(own, query, clock, TRUE)

---------------------------------------------------------------------------
(* The bot: app.py's run_bot thread, bot.py's main and handle_message *)

MaxUpdates == 2

RestartDelay == 30

Unknown == <<"U", "n", "k", "n", "o", "w", "n">>

Budi == <<"b", "u", "d", "i">>

\* message texts: a suffixed amount, a signed amount, a fractional amount,
\* and one without any number
Es10rb    == <<"e", "s", " ", "1", "0", "r", "b">>
KopiMinus == <<"k", "o", "p", "i", " ", "-", "5">>
EsCent    == <<"e", "s", " ", "0", ".", "0", "0", "5">>
Halo      == <<"h", "a", "l", "o">>

Texts == {Es10rb, KopiMinus, EsCent, Halo}

\* user 1 has a username, user 12 has none
Updates ==
    {[text |-> t, user_id |-> 1, username |-> Budi] : t \in Texts}
      \cup {[text |-> t, user_id |-> 12, username |-> <<>>] : t \in Texts}

\* what the sheet holds when the service starts
InitialSheets ==
    {<<>>, <<Row(TimestampStr(1), StrVal(Rp5000), <<"x">>, 1, Budi)>>}

Reply(kind, amount, description, shown) ==
    [kind |-> kind, amount |-> amount, description |-> description, total |-> shown]

\* mutant: the except branch reports success
add_transaction_ReportsSuccess(sheet, day, amount, description, user_id, username, appendOk) ==
    IF appendOk
    THEN [ok    |-> TRUE,
          sheet |-> Append(sheet, Row(TimestampStr(day), NumVal(amount),
                                      description, user_id, username)),
          log   |-> "added"]
    ELSE [ok |-> TRUE, sheet |-> sheet, log |-> "error_adding_transaction"]

\* mutant: the row is appended twice
add_transaction_AppendsTwice(sheet, day, amount, description, user_id, username, appendOk) ==
    LET row == Row(TimestampStr(day), NumVal(amount), description, user_id, username)
    IN  IF appendOk
        THEN [ok |-> TRUE, sheet |-> Append(Append(sheet, row), row), log |-> "added"]
        ELSE [ok |-> FALSE, sheet |-> sheet, log |-> "error_adding_transaction"]

\* add_transaction: appendOk = FALSE stands for sheet.append_row raising
add_transaction(sheet, day, amount, description, user_id, username, appendOk) ==
    IF appendOk
    THEN [ok    |-> TRUE,
          sheet |-> Append(sheet, Row(TimestampStr(day), NumVal(amount),
                                      description, user_id, username)),
          log   |-> "added"]
    ELSE [ok |-> FALSE, sheet |-> sheet, log |-> "error_adding_transaction"]

Init ==
    /\ ledger \in InitialSheets
    /\ clock = 1
    /\ sheets_connected = FALSE
    /\ thread = "run_bot"
    /\ restartWait = 0
    /\ handled = 0
    /\ update = NoUpdate
    /\ outbox = <<>>
    /\ events = <<>>
    /\ IdleParse /\ IdleRupiah /\ IdleTotal

\* run_bot: 'from bot import main' raises; the except branch logs and sleeps
ImportFails ==
    /\ thread = "run_bot"
    /\ thread' = "sleeping"
    /\ restartWait' = RestartDelay
    /\ events' = <<"bot_crashed", "restarting_in_30_seconds">>
    /\ UNCHANGED <<pmsg, pres, rin, rout, ledger, clock, query, total,
                   sheets_connected, handled, update, outbox>>

\* time.sleep(30), one second at a time
Sleep ==
    /\ thread = "sleeping"
    /\ restartWait > 0
    /\ restartWait' = restartWait - 1
    /\ UNCHANGED <<pmsg, pres, rin, rout, ledger, clock, query, total,
                   sheets_connected, thread, handled, update, outbox, events>>

\* run_bot() called again after the sleep
Restart ==
    /\ thread = "sleeping"
    /\ restartWait = 0
    /\ thread' = "run_bot"
    /\ UNCHANGED <<pmsg, pres, rin, rout, ledger, clock, query, total,
                   sheets_connected, restartWait, handled, update, outbox, events>>

\* what main() does up to run_polling, given whether the tracker connected,
\* whether BOT_TOKEN is the placeholder and whether building the
\* application raised: main catches that exception itself and returns
main(connected, placeholder, built) ==
    IF ~connected THEN [thread |-> "ended", log |-> "cannot_start_bot"]
    ELSE IF placeholder THEN [thread |-> "ended", log |-> "bot_token_not_set"]
    ELSE IF ~built THEN [thread |-> "ended", log |-> "failed_to_start_bot"]
    ELSE [thread |-> "polling", log |-> "bot_is_starting"]

\* run_bot: the import succeeds (the tracker is set up then) and main() runs
StartMain ==
    /\ thread = "run_bot"
    /\ \E connected \in BOOLEAN, placeholder \in BOOLEAN, built \in BOOLEAN :
         LET r == main(connected, placeholder, built)
         IN  /\ sheets_connected' = connected
             /\ thread' = r.thread
             /\ events' = <<r.log>>
    /\ UNCHANGED <<pmsg, pres, rin, rout, ledger, clock, query, total,
                   restartWait, handled, update, outbox>>

\* application.run_polling() raises: main's except branch logs and returns,
\* so run_bot returns too and the thread is over
PollingFails ==
    /\ thread = "polling"
    /\ thread' = "ended"
    /\ events' = <<"failed_to_start_bot">>
    /\ UNCHANGED <<pmsg, pres, rin, rout, ledger, clock, query, total,
                   sheets_connected, restartWait, handled, update, outbox>>

\* the wall clock passes midnight
Midnight ==
    /\ clock < LastDay
    /\ clock' = clock + 1
    /\ UNCHANGED <<pmsg, pres, rin, rout, ledger, query, total, sheets_connected,
                   thread, restartWait, handled, update, outbox, events>>

\* what one call of handle_message leaves behind
Outcome(sheet, day, asked, shown, reply, log) ==
    [ledger |-> sheet, clock |-> day, query |-> asked, total |-> shown,
     reply |-> reply, events |-> log]

\* handle_message after a successful add_transaction: get_daily_total and
\* the success reply.  day2 is the date get_daily_total reads, the clock
\* having possibly passed midnight since add_transaction wrote its timestamp.
ReplyWithTotal(upd, p, a, day) ==
    {Outcome(a.sheet, x[1], upd.user_id, [pc |-> "returned", v |-> x[3]],
             Reply("success", p.amount, p.description, x[3]),
             <<"received", "parsed", a.log,
               IF x[2] THEN "daily_total_calculated"
               ELSE "error_calculating_daily_total",
               "replied">>) :
        x \in {y \in (({day, day + 1} \cap Days) \X BOOLEAN \X
                       UNION {get_daily_total(a.sheet, upd.user_id, d, ok) :
                                d \in {day, day + 1} \cap Days, ok \in BOOLEAN}) :
                 y[3] \in get_daily_total(a.sheet, upd.user_id, y[1], y[2])}}

\* handle_message from add_transaction's result a on
AfterAdd(upd, p, a, day, asked, shown) ==
    IF ~a.ok
    THEN {Outcome(a.sheet, day, asked, shown,
                  Reply("storage_error", Zero, <<>>, Zero),
                  <<"received", "parsed", a.log>>)}
    ELSE ReplyWithTotal(upd, p, a, day)

\* handle_message from the parser's result p on
AfterParse(upd, p, sheet, day, asked, shown) ==
    LET username == IF upd.username = <<>> THEN Unknown ELSE upd.username
    IN  IF ~p.ok
        THEN {Outcome(sheet, day, asked, shown,
                      Reply("help", Zero, <<>>, Zero),
                      <<"received", "could_not_parse">>)}
        ELSE UNION {AfterAdd(upd, p, a, day, asked, shown) :
                      a \in {add_transaction(sheet, day, p.amount, p.description,
                                             upd.user_id, username, appendOk) :
                               appendOk \in BOOLEAN}}

\* handle_message for one update: every way it can end, given that the
\* sheet calls may fail (append_row raising, get_all_records raising)
handle_message(upd, sheet, day, asked, shown, connected) ==
    IF ~connected
    THEN {Outcome(sheet, day, asked, shown,
                  Reply("not_connected", Zero, <<>>, Zero), <<>>)}
    ELSE UNION {AfterParse(upd, p, sheet, day, asked, shown) :
                  p \in {parse_flexible_message(upd.text)}}

\* the polling loop dispatches one update to handle_message
HandleMessage ==
    /\ thread = "polling"
    /\ handled < MaxUpdates
    /\ handled' = handled + 1
    /\ \E upd \in Updates :
         /\ update' = upd
         /\ \E o \in handle_message(upd, ledger, clock, query, total, sheets_connected) :
              /\ ledger' = o.ledger
              /\ clock' = o.clock
              /\ query' = o.query
              /\ total' = o.total
              /\ outbox' = Append(outbox, o.reply)
              /\ events' = o.events
    /\ UNCHANGED <<pmsg, pres, rin, rout, sheets_connected, thread, restartWait>>

Next ==
    \/ ImportFails
    \/ Sleep
    \/ Restart
    \/ StartMain
    \/ PollingFails
    \/ Midnight
    \/ HandleMessage

Spec == Init /\ [][Next]_vars

---------------------------------------------------------------------------
(* Claims about the bot, checked under Spec *)

SheetLogs == {"added", "error_adding_transaction",
              "daily_total_calculated", "error_calculating_daily_total"}

TotalLogs == {"daily_total_calculated", "error_calculating_daily_total"}

Logged(log, names) == \E i \in 1..Len(log) : log[i] \in names

LastReply(box) == box[Len(box)]

UserName(upd) == IF upd.username = <<>> THEN Unknown ELSE upd.username

\* C7 as stated: the total in a success reply is the user's total of today
\* before the message plus the amount just added.
C7_TotalIsBeforePlusAmount ==
    [][handled' = handled + 1 /\ LastReply(outbox').kind = "success" =>
        LastReply(outbox').total =
            DecAdd(SumOver(ledger, CountedRows(ledger, update'.user_id, clock)),
                   LastReply(outbox').amount)]_vars

\* C7 as amended: when get_daily_total could read the sheet, on the day the
\* row was stamped with, the total shown is that sum rounded to 2 decimal
\* places; when reading the sheet failed, the total shown is 0.
C7_TotalIsRoundedUpdatedSum ==
    [][handled' = handled + 1 /\ LastReply(outbox').kind = "success" =>
        /\ (Logged(events', {"daily_total_calculated"}) /\ clock' = clock =>
              IsRounded2(LastReply(outbox').total,
                         DecAdd(SumOver(ledger, CountedRows(ledger, update'.user_id, clock)),
                                LastReply(outbox').amount)))
        /\ (Logged(events', {"error_calculating_daily_total"}) =>
              LastReply(outbox').total = Zero)]_vars

\* C7's case happened: user 1 had "Rp5.000" today, added 10000, was shown 15000
C7_Witness ==
    /\ Len(outbox) = 1
    /\ outbox[1].kind = "success"
    /\ outbox[1].amount = DecInt(10000)
    /\ outbox[1].total = DecInt(15000)
    /\ update.user_id = 1
    /\ Len(ledger) = 2

\* C8: the sheet only grows, by one row per update that parsed and was
\* stored: timestamp, amount, description, user id, username; any other
\* step, and an update that did not parse or was not stored, leaves it as
\* it was.
C8_AppendOnly ==
    [][/\ (handled' = handled => ledger' = ledger)
       /\ (handled' = handled + 1 =>
             \A p \in {parse_flexible_message(update'.text)} :
                IF p.ok /\ Logged(events', {"added"})
                THEN ledger' = Append(ledger,
                                  Row(TimestampStr(clock), NumVal(p.amount), p.description,
                                      update'.user_id, UserName(update')))
                ELSE ledger' = ledger)]_vars

\* C8's cases happened: one update stored, the next one not, one row more
C8_Witness ==
    /\ handled = 2
    /\ Len(outbox) = 2
    /\ outbox[1].kind = "success"
    /\ outbox[2].kind = "help"
    /\ Len(ledger) = 2
    /\ ledger[2].Username = Unknown

\* C10: after main() failed, run_bot sleeps and calls it again, so the
\* thread is never over with the bot down.
C10_ThreadNeverEndsAfterFailure ==
    ~(thread = "ended" /\ events = <<"failed_to_start_bot">>)

\* the "hence" of C3: no row of the sheet has a negative Amount
C3_NoNegativeRow ==
    \A i \in 1..Len(ledger) : ~DecIsNeg(parse_rupiah_amount(ledger[i].Amount))

=============================================================================
